---- MODULE Spec2Model ----
(***************************************************************************)
(* Snippr API (src/server.js): an Express server holding users and code    *)
(* snippets in memory.  Snippet bodies are stored encrypted (aes-256-cbc,  *)
(* "<hex iv>:<hex ciphertext>"), users log in with bcrypt-hashed passwords *)
(* and receive a JWT valid for 24 hours.                                   *)
(*                                                                         *)
(* Strings of request fields (email, password, language) are TLA+ strings; *)
(* snippet bodies and stored envelopes are sequences of UTF-16 code units, *)
(* as JavaScript strings are, so that the UTF-8 conversion, the hex        *)
(* encoding, the ":" split and the padding are computed as the code        *)
(* computes them.                                                          *)
(***************************************************************************)
EXTENDS Integers, Sequences, FiniteSets, Bags, TLC

----------------------------------------------------------------------------
(* Values of request fields *)

\* undefined / "" : falsy in `!email`, `!code`, ...
Absent == ""
\* a JSON value that is truthy but no string (a number, an object, an array)
NonString == "<non-string>"
AbsentCode == <<>>
NonStringCode == <<-1>>

Emails == {"a@x", "A@x", "b@x"}
Passwords == {"p1", "p2"}
Languages == {"js", "JS"}
\* "h", "hi"
Codes == {<<104>>, <<104, 105>>}

IsStr(v) == v # NonString
IsStrCode(c) == c # NonStringCode

\* String.prototype.toLowerCase on the strings of the model
toLowerCase(s) ==
    CASE s = "A@x" -> "a@x"
      [] s = "JS" -> "js"
      [] OTHER -> s

----------------------------------------------------------------------------
(* Encryption envelope: encrypt / decrypt, src/server.js lines 19-56 *)

ivLength == 16
keyLength == 32
\* aes-256-cbc works on 16-byte blocks
blockSize == 16
\* the character ":"
Colon == 58

\* ENCRYPTION_KEY: 32 bytes, fixed for the life of the process
key == [i \in 1..keyLength |-> (7 * i + 3) % 256]

\* the value decrypt returns from its catch block: "[Decryption Error]"
DecryptionError ==
    <<91, 68, 101, 99, 114, 121, 112, 116, 105, 111, 110, 32, 69, 114, 114, 111, 114, 93>>

\* crypto.randomBytes(ivLength): the outcomes the model draws from
IVSeeds == {0, 100}
randomBytes == {[i \in 1..ivLength |-> (b + 11 * i) % 256] : b \in IVSeeds}

HexDigit(n) == IF n < 10 THEN 48 + n ELSE 87 + n
IsHexChar(c) == (c >= 48 /\ c <= 57) \/ (c >= 97 /\ c <= 102) \/ (c >= 65 /\ c <= 70)
HexVal(c) == IF c <= 57 THEN c - 48 ELSE IF c >= 97 THEN c - 87 ELSE c - 55

\* Buffer.toString("hex")
toHex(bytes) ==
    [i \in 1..(2 * Len(bytes)) |->
        IF i % 2 = 1 THEN HexDigit(bytes[(i + 1) \div 2] \div 16)
                     ELSE HexDigit(bytes[i \div 2] % 16)]

\* Buffer.from(s, "hex"): whole pairs of hex digits, up to the first pair that is none
RECURSIVE fromHex(_)
fromHex(s) ==
    IF Len(s) < 2 \/ ~IsHexChar(s[1]) \/ ~IsHexChar(s[2])
    THEN <<>>
    ELSE <<16 * HexVal(s[1]) + HexVal(s[2])>> \o fromHex(SubSeq(s, 3, Len(s)))

\* String.prototype.split(sep)
RECURSIVE split(_, _)
split(s, sep) ==
    IF \E i \in 1..Len(s) : s[i] = sep
    THEN LET i == CHOOSE k \in 1..Len(s) :
                     s[k] = sep /\ \A j \in 1..(k - 1) : s[j] # sep
         IN <<SubSeq(s, 1, i - 1)>> \o split(SubSeq(s, i + 1, Len(s)), sep)
    ELSE <<s>>

\* PKCS#7 padding, applied by cipher.final()
Pad(bytes) ==
    LET n == blockSize - (Len(bytes) % blockSize)
    IN bytes \o [i \in 1..n |-> n]

\* the block cipher with no chaining: the IV and the previous block left out
EncryptBlockUnchained(block, prev) ==
    [i \in 1..blockSize |-> (block[i] + key[i] + key[blockSize + i]) % 256]

\* The block cipher under the key, as an invertible keyed byte map (AES itself is
\* the crypto library's), chained as CBC chains it: each block is mixed with the
\* previous ciphertext block, the first with the IV.
EncryptBlock(block, prev) ==
    [i \in 1..blockSize |->
        (block[i] + prev[i] + key[i] + key[blockSize + i]) % 256]

DecryptBlock(block, prev) ==
    [i \in 1..blockSize |->
        (block[i] - prev[i] - key[i] - key[blockSize + i] + 1024) % 256]

RECURSIVE CbcEncrypt(_, _)
CbcEncrypt(padded, prev) ==
    IF padded = <<>> THEN <<>>
    ELSE LET c == EncryptBlock(SubSeq(padded, 1, blockSize), prev)
         IN c \o CbcEncrypt(SubSeq(padded, blockSize + 1, Len(padded)), c)

RECURSIVE CbcDecrypt(_, _)
CbcDecrypt(ct, prev) ==
    IF ct = <<>> THEN <<>>
    ELSE LET c == SubSeq(ct, 1, blockSize)
         IN DecryptBlock(c, prev) \o CbcDecrypt(SubSeq(ct, blockSize + 1, Len(ct)), c)

\* decipher.final() throws on a ciphertext that is empty or no whole number of
\* blocks, and on bad padding
DecipherThrows(ct, iv) ==
    \/ Len(ct) = 0
    \/ Len(ct) % blockSize # 0
    \/ LET p == CbcDecrypt(ct, iv)
           n == p[Len(p)]
       IN \/ n < 1
          \/ n > blockSize
          \/ \E i \in (Len(p) - n + 1)..Len(p) : p[i] # n

Decipher(ct, iv) ==
    LET p == CbcDecrypt(ct, iv)
    IN SubSeq(p, 1, Len(p) - p[Len(p)])

\* a continuation byte of UTF-8
IsCont(b) == b >= 128 /\ b <= 191

\* U+FFFD, which stands in for what UTF-8 cannot carry
Replacement == 65533

\* cipher.update(text) with text a string: its UTF-16 code units written as UTF-8.
\* A surrogate with no partner has no UTF-8 form and is written as U+FFFD.
RECURSIVE utf8Encode(_)
utf8Encode(text) ==
    IF text = <<>> THEN <<>>
    ELSE LET u == text[1]
             n == Len(text)
             paired == /\ u >= 55296 /\ u <= 56319 /\ n >= 2
                       /\ text[2] >= 56320 /\ text[2] <= 57343
             cp == 65536 + (u - 55296) * 1024 + (text[2] - 56320)
         IN IF u < 128 THEN <<u>> \o utf8Encode(SubSeq(text, 2, n))
            ELSE IF u < 2048
            THEN <<192 + (u \div 64), 128 + (u % 64)>> \o utf8Encode(SubSeq(text, 2, n))
            ELSE IF paired
            THEN <<240 + (cp \div 262144), 128 + ((cp \div 4096) % 64),
                   128 + ((cp \div 64) % 64), 128 + (cp % 64)>>
                 \o utf8Encode(SubSeq(text, 3, n))
            ELSE IF u >= 55296 /\ u <= 57343
            THEN <<239, 191, 189>> \o utf8Encode(SubSeq(text, 2, n))
            ELSE <<224 + (u \div 4096), 128 + ((u \div 64) % 64), 128 + (u % 64)>>
                 \o utf8Encode(SubSeq(text, 2, n))

\* decrypted.toString(): the bytes read as UTF-8 into UTF-16 code units, every
\* maximal ill-formed run of bytes read as one U+FFFD
RECURSIVE utf8Decode(_)
utf8Decode(bytes) ==
    IF bytes = <<>> THEN <<>>
    ELSE LET n == Len(bytes)
             b1 == bytes[1]
             rest(k) == utf8Decode(SubSeq(bytes, k + 1, n))
             lo2 == CASE b1 = 224 -> 160 [] b1 = 240 -> 144 [] OTHER -> 128
             hi2 == CASE b1 = 237 -> 159 [] b1 = 244 -> 143 [] OTHER -> 191
             s2 == n >= 2 /\ bytes[2] >= lo2 /\ bytes[2] <= hi2
             s3 == s2 /\ n >= 3 /\ IsCont(bytes[3])
             s4 == s3 /\ n >= 4 /\ IsCont(bytes[4])
             cp == (b1 - 240) * 262144 + (bytes[2] - 128) * 4096
                   + (bytes[3] - 128) * 64 + (bytes[4] - 128) - 65536
         IN IF b1 < 128 THEN <<b1>> \o rest(1)
            ELSE IF b1 >= 194 /\ b1 <= 223
            THEN IF s2 THEN <<(b1 - 192) * 64 + (bytes[2] - 128)>> \o rest(2)
                 ELSE <<Replacement>> \o rest(1)
            ELSE IF b1 >= 224 /\ b1 <= 239
            THEN IF s3 THEN <<(b1 - 224) * 4096 + (bytes[2] - 128) * 64 + (bytes[3] - 128)>>
                            \o rest(3)
                 ELSE IF s2 THEN <<Replacement>> \o rest(2)
                 ELSE <<Replacement>> \o rest(1)
            ELSE IF b1 >= 240 /\ b1 <= 244
            THEN IF s4 THEN <<55296 + (cp \div 1024), 56320 + (cp % 1024)>> \o rest(4)
                 ELSE IF s3 THEN <<Replacement>> \o rest(3)
                 ELSE IF s2 THEN <<Replacement>> \o rest(2)
                 ELSE <<Replacement>> \o rest(1)
            ELSE <<Replacement>> \o rest(1)

\* encrypt(text), lines 29-35, with the IV that crypto.randomBytes returned
encrypt(text, iv) ==
    toHex(iv) \o <<Colon>> \o toHex(CbcEncrypt(Pad(utf8Encode(text)), iv))

\* parts.join(":") of what parts.shift() left
RECURSIVE join(_, _)
join(parts, sep) ==
    IF parts = <<>> THEN <<>>
    ELSE IF Len(parts) = 1 THEN parts[1]
    ELSE parts[1] \o <<sep>> \o join(Tail(parts), sep)

\* the try block of decrypt with `parts.length < 2` for its first test
decryptThrowsFewerThanTwo(text) ==
    LET parts == split(text, Colon)
    IN \/ Len(parts) < 2
       \/ Len(fromHex(parts[1])) # ivLength
       \/ DecipherThrows(fromHex(join(Tail(parts), Colon)), fromHex(parts[1]))

\* the try block of decrypt, lines 39-51, throws: not two fields, an IV of
\* another length than ivLength, or decipher.final() throwing
decryptThrows(text) ==
    LET parts == split(text, Colon)
    IN \/ Len(parts) # 2
       \/ Len(fromHex(parts[1])) # ivLength
       \/ DecipherThrows(fromHex(join(Tail(parts), Colon)), fromHex(parts[1]))

\* decrypt(text), lines 37-56: what the try block returns, or the value of the
\* catch block
decrypt(text) ==
    LET parts == split(text, Colon)
    IN IF decryptThrows(text) THEN DecryptionError
       ELSE utf8Decode(Decipher(fromHex(join(Tail(parts), Colon)), fromHex(parts[1])))

\* the snippet bodies of the model beyond Codes: "[Decryption Error]", "h:i",
\* an e with acute accent (two bytes of UTF-8), a euro sign (three), a pair of
\* surrogates (four), a surrogate with no partner, and a text of one whole block
PlainTexts ==
    Codes \cup {DecryptionError, <<104, Colon, 105>>, <<233>>, <<8364>>,
                <<55357, 56832>>, <<55296>>, [i \in 1..blockSize |-> 96 + i]}

\* the two functions on the bodies and IVs of the model, computed once
EncryptTable == [a \in PlainTexts \X randomBytes |-> encrypt(a[1], a[2])]
DecryptTable == [e \in {EncryptTable[a] : a \in PlainTexts \X randomBytes} |-> decrypt(e)]

encryptCall(text, iv) ==
    IF <<text, iv>> \in DOMAIN EncryptTable THEN EncryptTable[<<text, iv>>]
    ELSE encrypt(text, iv)

decryptCall(text) ==
    IF text \in DOMAIN DecryptTable THEN DecryptTable[text] ELSE decrypt(text)

----------------------------------------------------------------------------
(* Password hashing (bcrypt) and session tokens (jsonwebtoken) *)

\* parseInt(process.env.SALT_ROUNDS || "10", 10)
saltRounds == 10
\* the salts bcrypt.hash may generate
Salts == {"s1", "s2"}

\* bcrypt.hash(password, saltRounds) with the salt it generated: the digest embeds
\* the cost factor and the salt, and is a function of password and salt
bcryptHash(password, salt) ==
    [rounds |-> saltRounds, salt |-> salt, digest |-> <<salt, password>>]

\* bcrypt.compare(password, hash): re-hash under the embedded salt and compare
bcryptCompare(password, hash) == bcryptHash(password, hash.salt) = hash

\* JWT_EXPIRATION = "24h", in the seconds jsonwebtoken counts in
JWT_EXPIRATION == 86400

\* the value of process.env.JWT_SECRET when it is set
EnvSecret == 1
\* a secret that is not the server's (a forged token is signed with it)
AttackerSecret == EnvSecret - 1

NoToken ==
    [wellFormed |-> FALSE, id |-> 0, email |-> "", iat |-> 0, exp |-> 0, sig |-> <<>>]

\* the signature of the claim set under a secret (HS256)
HMAC(id, email, iat, exp, secret) == <<secret, id, email, iat, exp>>

\* jwt.sign({id, email}, secret, {expiresIn: JWT_EXPIRATION}) at time now
jwtSign(id, email, secret, now) ==
    [wellFormed |-> TRUE, id |-> id, email |-> email, iat |-> now,
     exp |-> now + JWT_EXPIRATION,
     sig |-> HMAC(id, email, now, now + JWT_EXPIRATION, secret)]

\* jwtVerify with the expiry test off by one: a token is still taken at now = exp
jwtVerifyLate(token, secret, now) ==
    IF ~token.wellFormed THEN "JsonWebTokenError: jwt malformed"
    ELSE IF token.sig # HMAC(token.id, token.email, token.iat, token.exp, secret)
         THEN "JsonWebTokenError: invalid signature"
    ELSE IF now > token.exp THEN "TokenExpiredError: jwt expired"
    ELSE "ok"

\* jwt.verify(token, secret) at time now: "ok" or the error it calls back with.
\* jsonwebtoken rejects a token once now >= exp.
jwtVerify(token, secret, now) ==
    IF ~token.wellFormed THEN "JsonWebTokenError: jwt malformed"
    ELSE IF token.sig # HMAC(token.id, token.email, token.iat, token.exp, secret)
         THEN "JsonWebTokenError: invalid signature"
    ELSE IF now >= token.exp THEN "TokenExpiredError: jwt expired"
    ELSE "ok"

----------------------------------------------------------------------------------------------------------------------------------------------------
(* Bounds of the model *)

\* snippets created per process run
MaxCreated == 2
\* users registered (or being registered) per process run
MaxUsers == 2
\* handlers suspended at an await at the same time
MaxPending == 2
\* tokens issued over a behaviour
MaxTokens == 2
\* process runs (1 = no restart)
MaxRuns == 2

\* the instants the clock takes
ClockValues == {0, 1, JWT_EXPIRATION - 1, JWT_EXPIRATION, JWT_EXPIRATION + 1}

\* snippet ids a request may name
RequestIds == 1..5

----------------------------------------------------------------------------
(* State *)

\* userId: null
Null == 0

VARIABLES
    running,        \* the process is up
    run,            \* number of the process run
    seedFile,       \* data/seedData.json as the process finds it
    secretFromEnv,  \* process.env.JWT_SECRET is set
    JWT_SECRET,
    snippets, nextSnippetId, users, nextUserId,
    pending,        \* handlers suspended at await bcrypt.hash / bcrypt.compare
    clock,          \* seconds
    issued,         \* the tokens the server has returned, with the run that issued each
    last            \* the response on its way to the client, NoResponse when none is

vars == <<running, run, seedFile, secretFromEnv, JWT_SECRET, snippets, nextSnippetId,
          users, nextUserId, pending, clock, issued, last>>

\* seedData.json: unreadable (readFileSync or JSON.parse throws), or a list of
\* snippets with pre-assigned ids, some carrying a userId
SeedFiles ==
    { [ok |-> FALSE, data |-> <<>>],
      [ok |-> TRUE,
       data |-> << [id |-> 3, language |-> "js", code |-> <<104>>, userId |-> 1],
                   [id |-> 1, language |-> "JS", code |-> <<104, 105>>, userId |-> Null] >>] }

Max(S) == CHOOSE m \in S : \A n \in S : n <= m

\* loadSeedData, lines 74-78: the snippet store it builds, with the IVs of its
\* encrypt calls given
SeedSnippets(file, ivs) ==
    IF file.ok
    THEN [i \in 1..Len(file.data) |->
            [id |-> file.data[i].id,
             language |-> file.data[i].language,
             code |-> encryptCall(file.data[i].code, ivs[i]),
             userId |-> IF file.data[i].userId # 0 THEN file.data[i].userId ELSE Null]]
    ELSE <<>>

\* loadSeedData, lines 80-85 and 92
SeedNextSnippetId(file) ==
    IF file.ok /\ Len(file.data) > 0
    THEN Max({file.data[i].id : i \in 1..Len(file.data)}) + 1
    ELSE 1

\* crypto.randomBytes(32).toString("hex"), a fresh value each run
GeneratedSecret(r) == 10 + r

NoHeader == [kind |-> "none", token |-> NoToken]
NoTokenPart == [kind |-> "notoken", token |-> NoToken]
Bearer(t) == [kind |-> "bearer", token |-> t]

NoResponse ==
    [op |-> "none", auth |-> NoHeader, email |-> Absent, password |-> Absent,
     status |-> 0, message |-> "", body |-> <<>>, token |-> NoToken, id |-> 0,
     language |-> Absent, code |-> <<>>]

\* res.status(status).json(...) to a request: the request's credentials and the
\* response's status, message, snippets and token.  The fields id, language and
\* code are for the id, the language and the snippet body the request named.
Response(op, auth, email, password, status, message, body, token) ==
    [op |-> op, auth |-> auth, email |-> email, password |-> password,
     status |-> status, message |-> message, body |-> body, token |-> token, id |-> 0,
     language |-> Absent, code |-> <<>>]

\* the response to a request without credentials
Reply(op, status, message, body) ==
    Response(op, NoHeader, Absent, Absent, status, message, body, NoToken)

\* module load and the app.listen callback (loadSeedData), for the seed files and
\* the settings of JWT_SECRET given
InitWith(files, envs, ivs) ==
    /\ running = TRUE
    /\ run = 1
    /\ seedFile \in files
    /\ secretFromEnv \in envs
    /\ JWT_SECRET = IF secretFromEnv THEN EnvSecret ELSE GeneratedSecret(1)
    /\ \E seedIVs \in [1..2 -> ivs] : snippets = SeedSnippets(seedFile, seedIVs)
    /\ nextSnippetId = SeedNextSnippetId(seedFile)
    /\ users = <<>>
    /\ nextUserId = 1
    /\ pending = EmptyBag
    /\ clock = 0
    /\ issued = {}
    /\ last = NoResponse

Init == InitWith(SeedFiles, BOOLEAN, randomBytes)

----------------------------------------------------------------------------
(* authenticateToken, lines 100-118 *)

TokenRejected ==
    [status |-> 403, message |-> "Invalid or expired token", user |-> NoToken]

\* authenticateToken telling an expired token from an invalid one
authenticateTokenTelling(auth) ==
    IF auth.kind = "none"
    THEN [status |-> 401, message |-> "Authorization header required", user |-> NoToken]
    ELSE IF auth.kind = "notoken"
    THEN [status |-> 401, message |-> "Bearer token required", user |-> NoToken]
    ELSE IF jwtVerify(auth.token, JWT_SECRET, clock) = "TokenExpiredError: jwt expired"
    THEN [status |-> 401, message |-> "Token expired", user |-> NoToken]
    ELSE IF jwtVerify(auth.token, JWT_SECRET, clock) # "ok"
    THEN TokenRejected
    ELSE [status |-> 0, message |-> "", user |-> auth.token]

\* what the middleware does with an Authorization header: next() with req.user
\* bound (status 0), or the response it ends the request with
authenticateToken(auth) ==
    IF auth.kind = "none"
    THEN [status |-> 401, message |-> "Authorization header required", user |-> NoToken]
    ELSE IF auth.kind = "notoken"
    THEN [status |-> 401, message |-> "Bearer token required", user |-> NoToken]
    ELSE IF jwtVerify(auth.token, JWT_SECRET, clock) # "ok"
    THEN TokenRejected
    ELSE [status |-> 0, message |-> "", user |-> auth.token]

\* a token of the server with its id claim changed and its signature kept
Tamper(t) == [t EXCEPT !.id = IF t.id = 1 THEN 2 ELSE 1]

\* the Authorization headers a client may send: none, one without a token part, a
\* malformed token, a token signed with another secret, the tokens the server
\* issued, and those with another id put in
AuthHeaders ==
    {NoHeader, NoTokenPart, Bearer(NoToken),
     Bearer(jwtSign(1, "a@x", AttackerSecret, clock))}
    \cup {Bearer(e.token) : e \in issued}
    \cup {Bearer(Tamper(e.token)) : e \in issued}

\* { ...snippet, code: decrypt(snippet.code) }
Decrypted(snippet) == [snippet EXCEPT !.code = decryptCall(snippet.code)]

\* a synchronous handler threw: Express's own error handler answers
ExpressError == "Internal Server Error"

Idle == running /\ last = NoResponse

Respond(r) ==
    /\ last' = r
    /\ UNCHANGED <<running, run, seedFile, secretFromEnv, JWT_SECRET, snippets,
                   nextSnippetId, users, nextUserId, pending, clock, issued>>

\* the client takes the response
Receive ==
    /\ last # NoResponse
    /\ Respond(NoResponse)

----------------------------------------------------------------------------
(* Read endpoints *)

\* GET /
Welcome ==
    /\ Idle
    /\ Respond(Reply("GET /", 200, "Welcome to the Snippr API!", <<>>))

\* GET /snippets?lang=..., lines 163-181
GetSnippetsResponse(store, language) ==
    LET public == SelectSeq(store, LAMBDA s : s.userId = Null)
        throws == /\ language # Absent
                  /\ \E i \in 1..Len(public) :
                        /\ decryptCall(public[i].code) # DecryptionError
                        /\ (~IsStr(public[i].language) \/ ~IsStr(language))
        results == IF language # Absent
                   THEN SelectSeq(public, LAMBDA s :
                            /\ decryptCall(s.code) # DecryptionError
                            /\ toLowerCase(s.language) = toLowerCase(language))
                   ELSE public
    IN [ (IF throws
          THEN Reply("GET /snippets", 500, ExpressError, <<>>)
          ELSE Reply("GET /snippets", 200, "",
                     [i \in 1..Len(results) |-> Decrypted(results[i])]))
         EXCEPT !.language = language ]

GetSnippets(languages) ==
    /\ Idle
    /\ \E language \in languages : Respond(GetSnippetsResponse(snippets, language))

\* GET /snippets/:id without the test of the owner
GetSnippetByIdLeaky(store, id) ==
    LET found == SelectSeq(store, LAMBDA s : s.id = id)
    IN [ (IF found # <<>>
          THEN Reply("GET /snippets/:id", 200, "", <<Decrypted(found[1])>>)
          ELSE Reply("GET /snippets/:id", 404, "Snippet with ID ${id} not found.", <<>>))
         EXCEPT !.id = id ]

\* GET /snippets/:id, lines 183-203
GetSnippetByIdResponse(store, id) ==
    LET found == SelectSeq(store, LAMBDA s : s.id = id)
    IN [ (IF found # <<>>
          THEN IF found[1].userId # Null
               THEN Reply("GET /snippets/:id", 403,
                          "This snippet requires authentication", <<>>)
               ELSE Reply("GET /snippets/:id", 200, "", <<Decrypted(found[1])>>)
          ELSE Reply("GET /snippets/:id", 404, "Snippet with ID ${id} not found.", <<>>))
         EXCEPT !.id = id ]

GetSnippetById(ids) ==
    /\ Idle
    /\ \E id \in ids : Respond(GetSnippetByIdResponse(snippets, id))

\* GET /user/snippets returning every private snippet
GetUserSnippetsAllPrivate(store, auth) ==
    LET a == authenticateToken(auth)
        userSnippets == SelectSeq(store, LAMBDA s : s.userId # Null)
    IN IF a.status # 0
       THEN Response("GET /user/snippets", auth, Absent, Absent, a.status, a.message,
                     <<>>, NoToken)
       ELSE Response("GET /user/snippets", auth, Absent, Absent, 200, "",
                     [i \in 1..Len(userSnippets) |-> Decrypted(userSnippets[i])], NoToken)

\* GET /user/snippets, lines 206-217
GetUserSnippetsResponse(store, auth) ==
    LET a == authenticateToken(auth)
        userSnippets == SelectSeq(store, LAMBDA s : s.userId = a.user.id)
    IN IF a.status # 0
       THEN Response("GET /user/snippets", auth, Absent, Absent, a.status, a.message,
                     <<>>, NoToken)
       ELSE Response("GET /user/snippets", auth, Absent, Absent, 200, "",
                     [i \in 1..Len(userSnippets) |-> Decrypted(userSnippets[i])], NoToken)

GetUserSnippets ==
    /\ Idle
    /\ \E auth \in AuthHeaders : Respond(GetUserSnippetsResponse(snippets, auth))

\* GET /user/snippets/:id, lines 220-236
GetUserSnippetByIdResponse(store, auth, id) ==
    LET a == authenticateToken(auth)
        found == SelectSeq(store, LAMBDA s : s.id = id /\ s.userId = a.user.id)
    IN [ (IF a.status # 0
          THEN Response("GET /user/snippets/:id", auth, Absent, Absent, a.status,
                        a.message, <<>>, NoToken)
          ELSE IF found = <<>>
          THEN Response("GET /user/snippets/:id", auth, Absent, Absent, 404,
                        "Snippet not found or access denied", <<>>, NoToken)
          ELSE Response("GET /user/snippets/:id", auth, Absent, Absent, 200, "",
                        <<Decrypted(found[1])>>, NoToken))
         EXCEPT !.id = id ]

GetUserSnippetById(ids) ==
    /\ Idle
    /\ \E auth \in AuthHeaders, id \in ids :
          Respond(GetUserSnippetByIdResponse(snippets, auth, id))

\* GET /user/profile, lines 330-340
GetUserProfileResponse(auth) ==
    LET a == authenticateToken(auth)
        found == SelectSeq(users, LAMBDA u : u.id = a.user.id)
    IN IF a.status # 0
       THEN Response("GET /user/profile", auth, Absent, Absent, a.status, a.message,
                     <<>>, NoToken)
       ELSE IF found = <<>>
       THEN Response("GET /user/profile", auth, Absent, Absent, 404, "User not found",
                     <<>>, NoToken)
       ELSE [Response("GET /user/profile", auth, found[1].email, Absent, 200, "",
                      <<>>, NoToken) EXCEPT !.id = found[1].id]

GetUserProfile ==
    /\ Idle
    /\ \E auth \in AuthHeaders : Respond(GetUserProfileResponse(auth))

----------------------------------------------------------------------------
(* Create endpoints *)

\* snippets this run has given an id to
Created == nextSnippetId - SeedNextSnippetId(seedFile)

\* the new record of lines 248-253 / 272-277
NewSnippet(language, code, iv, userId) ==
    [id |-> nextSnippetId, language |-> language, code |-> encryptCall(code, iv),
     userId |-> userId]

\* the counter left as it is
NextSnippetIdStuck(id) == id

\* nextSnippetId++
NextSnippetIdAfter(id) == id + 1

\* lines 248-259 / 272-283, after validation: nextSnippetId++ is evaluated before
\* encrypt(code), which throws on a code that is no string
CreateSnippet(op, auth, language, code, userId, ivs) ==
    /\ Created < MaxCreated
    /\ nextSnippetId' = NextSnippetIdAfter(nextSnippetId)
    /\ IF ~IsStrCode(code)
       THEN /\ snippets' = snippets
            /\ last' = Response(op, auth, Absent, Absent, 500, ExpressError, <<>>, NoToken)
       ELSE \E iv \in ivs :
               /\ snippets' = Append(snippets, NewSnippet(language, code, iv, userId))
               /\ last' = [Response(op, auth, Absent, Absent, 201, "",
                                    <<Decrypted(NewSnippet(language, code, iv, userId))>>,
                                    NoToken)
                           EXCEPT !.language = language, !.code = code]
    /\ UNCHANGED <<running, run, seedFile, secretFromEnv, JWT_SECRET, users, nextUserId,
                   pending, clock, issued>>

\* const { language, code, isPrivate = true } = req.body
IsPrivateValues == {"undefined", "true", "false"}

\* the owner taken from elsewhere than the token
OwnerOfOther(isPrivate, user) ==
    IF isPrivate # "false" THEN (IF user.id = 1 THEN 2 ELSE 1) ELSE Null

\* userId: isPrivate ? req.user.id : null
OwnerOf(isPrivate, user) == IF isPrivate # "false" THEN user.id ELSE Null

MissingFields(op, auth) ==
    Response(op, auth, Absent, Absent, 400, "Missing required fields: language and code",
             <<>>, NoToken)

\* POST /user/snippets, lines 239-260
PostUserSnippets(languages, codes, privacies, ivs) ==
    /\ Idle
    /\ \E auth \in AuthHeaders, language \in languages, code \in codes,
          isPrivate \in privacies :
          LET a == authenticateToken(auth)
          IN IF a.status # 0
             THEN Respond(Response("POST /user/snippets", auth, Absent, Absent, a.status,
                                   a.message, <<>>, NoToken))
             ELSE IF language = Absent \/ code = AbsentCode
             THEN Respond(MissingFields("POST /user/snippets", auth))
             ELSE CreateSnippet("POST /user/snippets", auth, language, code,
                                OwnerOf(isPrivate, a.user), ivs)

\* POST /snippets, lines 263-284
PostSnippets(languages, codes, ivs) ==
    /\ Idle
    /\ \E language \in languages, code \in codes :
          IF language = Absent \/ code = AbsentCode
          THEN Respond(MissingFields("POST /snippets", NoHeader))
          ELSE CreateSnippet("POST /snippets", NoHeader, language, code, Null, ivs)

----------------------------------------------------------------------------
(* Registration and login: async handlers, suspended at their await *)

NoUser ==
    [id |-> 0, email |-> Absent, passwordHash |-> bcryptHash(Absent, "")]

Suspended(op, email, password, user) ==
    [op |-> op, email |-> email, password |-> password, user |-> user]

PendingOf(op) == Cardinality({<<h, i>> \in BagToSet(pending) \X (1..MaxPending + 1) :
                                h.op = op /\ i <= pending[h]})

\* users.find / users.some with (u) => u.email.toLowerCase() === email.toLowerCase():
\* the index of the first match, 0 when there is none, -1 when the callback throws
\* (toLowerCase of a value that is no string) before a match is found
RECURSIVE FindUser(_, _, _)
FindUser(us, i, email) ==
    IF i > Len(us) THEN 0
    ELSE IF ~IsStr(us[i].email) \/ ~IsStr(email) THEN -1
    ELSE IF toLowerCase(us[i].email) = toLowerCase(email) THEN i
    ELSE FindUser(us, i + 1, email)

\* the process ends: its memory is gone
Crash(r) ==
    /\ running' = FALSE
    /\ snippets' = <<>>
    /\ nextSnippetId' = 1
    /\ users' = <<>>
    /\ nextUserId' = 1
    /\ pending' = EmptyBag
    /\ last' = r
    /\ UNCHANGED <<run, seedFile, secretFromEnv, JWT_SECRET, clock, issued>>

\* an async handler threw outside its try block: its promise rejects.  Express 5
\* passes the rejection to its error handler; under Express 4 nothing handles it
\* and Node (18, as the Dockerfile pins) ends the process.
Rejected(op, email, password) ==
    \/ Respond(Response(op, NoHeader, email, password, 500, ExpressError, <<>>, NoToken))
    \/ Crash(Response(op, NoHeader, email, password, 0, "", <<>>, NoToken))

Suspend(h) ==
    /\ pending' = pending (+) SetToBag({h})
    /\ UNCHANGED <<running, run, seedFile, secretFromEnv, JWT_SECRET, snippets,
                   nextSnippetId, users, nextUserId, clock, issued, last>>

\* the emails compared as they are, letter case included
EmailTakenExact(us, email) == \E i \in 1..Len(us) : us[i].email = email

\* line 296: users.some(...) found a record with the email
EmailTaken(us, email) == FindUser(us, 1, email) > 0

\* POST /user, lines 287-304: up to await bcrypt.hash
PostUserStart(emails, passwords) ==
    /\ Idle
    /\ \E email \in emails, password \in passwords :
          IF email = Absent \/ password = Absent
          THEN Respond(Response("POST /user", NoHeader, email, password, 400,
                                "Missing required fields: email and password", <<>>,
                                NoToken))
          ELSE IF FindUser(users, 1, email) = -1
          THEN Rejected("POST /user", email, password)
          ELSE IF EmailTaken(users, email)
          THEN Respond(Response("POST /user", NoHeader, email, password, 409,
                                "User with this email already exists.", <<>>, NoToken))
          ELSE /\ BagCardinality(pending) < MaxPending
               /\ Len(users) + PendingOf("POST /user") < MaxUsers
               /\ Suspend(Suspended("POST /user", email, password, NoUser))

\* the counter left as it is
NextUserIdStuck(id) == id

\* nextUserId++
NextUserIdAfter(id) == id + 1

\* the new record of lines 306-310
NewUser(email, password, salt) ==
    [id |-> nextUserId, email |-> email, passwordHash |-> bcryptHash(password, salt)]

\* POST /user, lines 304-326: from the resolution of bcrypt.hash
PostUserFinish ==
    /\ Idle
    /\ \E h \in BagToSet(pending) :
          /\ h.op = "POST /user"
          /\ pending' = pending (-) SetToBag({h})
          /\ IF ~IsStr(h.password)
             THEN /\ last' = Response("POST /user", NoHeader, h.email, h.password, 500,
                                      "Internal server error during user creation.",
                                      <<>>, NoToken)
                  /\ UNCHANGED <<users, nextUserId>>
             ELSE \E salt \in Salts :
                     /\ users' = Append(users, NewUser(h.email, h.password, salt))
                     /\ nextUserId' = NextUserIdAfter(nextUserId)
                     /\ last' = [Response("POST /user", NoHeader, h.email, h.password,
                                          201, "", <<>>, NoToken)
                                 EXCEPT !.id = nextUserId]
          /\ UNCHANGED <<running, run, seedFile, secretFromEnv, JWT_SECRET, snippets,
                         nextSnippetId, clock, issued>>

\* lines 136-138 and 142-144: the failure of a login
InvalidCredentials(email, password) ==
    Response("POST /login", NoHeader, email, password, 401, "Invalid email or password",
             <<>>, NoToken)

\* a login that tells an unknown email from a wrong password
UnknownEmailRevealed(email, password) ==
    Response("POST /login", NoHeader, email, password, 404, "User not found", <<>>,
             NoToken)

UnknownEmail(email, password) == InvalidCredentials(email, password)

WrongPassword(email, password) == InvalidCredentials(email, password)

\* POST /login, lines 128-141: up to await bcrypt.compare
LoginStart(emails, passwords) ==
    /\ Idle
    /\ \E email \in emails, password \in passwords :
          IF email = Absent \/ password = Absent
          THEN Respond(Response("POST /login", NoHeader, email, password, 400,
                                "Email and password are required", <<>>, NoToken))
          ELSE IF FindUser(users, 1, email) = -1
          THEN Rejected("POST /login", email, password)
          ELSE IF FindUser(users, 1, email) = 0
          THEN Respond(UnknownEmail(email, password))
          ELSE /\ BagCardinality(pending) < MaxPending
               /\ Cardinality(issued) + PendingOf("POST /login") < MaxTokens
               /\ Suspend(Suspended("POST /login", email, password,
                                    users[FindUser(users, 1, email)]))

\* POST /login, lines 141-159: from the resolution of bcrypt.compare
LoginFinish ==
    /\ Idle
    /\ \E h \in BagToSet(pending) :
          /\ h.op = "POST /login"
          /\ pending' = pending (-) SetToBag({h})
          /\ IF ~IsStr(h.password)
             THEN /\ last' = Response("POST /login", NoHeader, h.email, h.password, 500,
                                      "Internal server error during login", <<>>, NoToken)
                  /\ issued' = issued
             ELSE IF ~bcryptCompare(h.password, h.user.passwordHash)
             THEN /\ last' = WrongPassword(h.email, h.password)
                  /\ issued' = issued
             ELSE LET token == jwtSign(h.user.id, h.user.email, JWT_SECRET, clock)
                  IN /\ last' = Response("POST /login", NoHeader, h.email, h.password,
                                         200, "Login successful", <<>>, token)
                     /\ issued' = issued \cup {[token |-> token, run |-> run]}
          /\ UNCHANGED <<running, run, seedFile, secretFromEnv, JWT_SECRET, snippets,
                         nextSnippetId, users, nextUserId, clock>>

----------------------------------------------------------------------------
(* The environment: time passes, the process is started again *)

Tick(clocks) ==
    /\ last = NoResponse
    /\ \E c \in clocks : c > clock /\ clock' = c
    /\ UNCHANGED <<running, run, seedFile, secretFromEnv, JWT_SECRET, snippets,
                   nextSnippetId, users, nextUserId, pending, issued, last>>

\* a new process: module load (lines 14-15, 63-66) and app.listen -> loadSeedData
Restart ==
    /\ last = NoResponse
    /\ run < MaxRuns
    /\ run' = run + 1
    /\ running' = TRUE
    /\ JWT_SECRET' = IF secretFromEnv THEN EnvSecret ELSE GeneratedSecret(run + 1)
    /\ \E ivs \in [1..2 -> randomBytes] : snippets' = SeedSnippets(seedFile, ivs)
    /\ nextSnippetId' = SeedNextSnippetId(seedFile)
    /\ users' = <<>>
    /\ nextUserId' = 1
    /\ pending' = EmptyBag
    /\ UNCHANGED <<seedFile, secretFromEnv, clock, issued, last>>

\* the values a request may carry in a string field
AnyOf(strings) == strings \cup {Absent, NonString}

AnyLanguage == AnyOf(Languages)
AnyCode == PlainTexts \cup {AbsentCode, NonStringCode}
AnyEmail == AnyOf(Emails)
AnyPassword == AnyOf(Passwords)

\* The whole server
Next ==
    \/ Welcome
    \/ GetSnippets(AnyLanguage)
    \/ GetSnippetById(RequestIds)
    \/ GetUserSnippets
    \/ GetUserSnippetById(RequestIds)
    \/ GetUserProfile
    \/ PostUserSnippets(AnyLanguage, AnyCode, IsPrivateValues, randomBytes)
    \/ PostSnippets(AnyLanguage, AnyCode, randomBytes)
    \/ PostUserStart(AnyEmail, AnyPassword)
    \/ PostUserFinish
    \/ LoginStart(AnyEmail, AnyPassword)
    \/ LoginFinish
    \/ Receive
    \/ Tick(ClockValues)
    \/ Restart

Spec == Init /\ [][Next]_vars

----------------------------------------------------------------------------
(* The specifications the properties are checked under: the server with the      *)
(* requests of one part of its interface taking all their values, and the rest   *)
(* of the requests kept to what that part needs.                                 *)

NoSeeds == {[ok |-> FALSE, data |-> <<>>]}

\* the fields of the requests of each workload
RegistrationEmails == {"a@x", "A@x", Absent}
RegistrationPasswords == {"p1", "p2", Absent}
LoginEmails == {"a@x", "A@x", "b@x", Absent}
LoginPasswords == AnyOf(Passwords)
OneEmail == {"a@x"}
OnePassword == {"p1"}
TwoEmails == {"a@x", "b@x"}
ListedLanguages == {Absent, "js"}
SubmittedLanguages == {"js", Absent}
SubmittedCodes == {<<104>>, AbsentCode, NonStringCode}
SubmittedPrivacies == {"undefined", "false"}
NamedIds == {1, 3, 4}
ExpiryInstants == {JWT_EXPIRATION}

\* registration and login, concurrent
NextRegistration ==
    \/ PostUserStart(RegistrationEmails, RegistrationPasswords)
    \/ PostUserFinish
    \/ LoginStart(LoginEmails, LoginPasswords)
    \/ LoginFinish
    \/ Receive

SpecRegistration == InitWith(NoSeeds, {FALSE}, randomBytes) /\ [][NextRegistration]_vars

\* the life of a token: login, use, expiry, restart
NextTokens ==
    \/ PostUserStart(OneEmail, OnePassword)
    \/ PostUserFinish
    \/ LoginStart(OneEmail, OnePassword)
    \/ LoginFinish
    \/ GetUserProfile
    \/ Receive
    \/ Tick(ClockValues)
    \/ Restart

SpecTokens == InitWith(NoSeeds, BOOLEAN, randomBytes) /\ [][NextTokens]_vars

\* one of the IVs
OneIV == {CHOOSE iv \in randomBytes : TRUE}

\* an action of a workload whose clients wait for the answer to a registration or
\* a login before they send the next
InTurn(A) == A /\ BagCardinality(pending') <= 1

\* reading and creating snippets, by two users and by anonymous callers
NextSnippets ==
    \/ InTurn(PostUserStart(TwoEmails, OnePassword))
    \/ PostUserFinish
    \/ InTurn(LoginStart(TwoEmails, OnePassword))
    \/ LoginFinish
    \/ GetSnippets(ListedLanguages)
    \/ GetSnippetById(NamedIds)
    \/ GetUserSnippets
    \/ GetUserSnippetById(NamedIds)
    \/ PostUserSnippets(SubmittedLanguages, SubmittedCodes, SubmittedPrivacies, OneIV)
    \/ PostSnippets(SubmittedLanguages, SubmittedCodes, OneIV)
    \/ Receive
    \/ Tick(ExpiryInstants)

SpecSnippets == InitWith(SeedFiles, {FALSE}, OneIV) /\ [][NextSnippets]_vars

\* decrypt called on a value, as the read handlers call it on the code of a
\* record: the value and what decrypt returned
Decode(texts) ==
    /\ Idle
    /\ \E text \in texts :
          Respond([Reply("decrypt", 0, "", <<decrypt(text)>>) EXCEPT !.code = text])

\* first fields for a stored value: the hex of an IV, the same cut to 15 bytes, to
\* 15 bytes and a half, grown to 17 bytes, followed by "zz", led by "g", and nothing
IVFields ==
    LET good == toHex(CHOOSE iv \in randomBytes : TRUE)
    IN {good, SubSeq(good, 1, 30), SubSeq(good, 1, 31), good \o <<48, 48>>,
        good \o <<122, 122>>, <<103>> \o good, <<>>}

\* second fields: the hex of the ciphertext of "h", the same cut by a byte, a
\* block of zeros, a text that is no hex, and nothing
CiphertextFields ==
    LET iv == CHOOSE v \in randomBytes : TRUE
        good == toHex(CbcEncrypt(Pad(<<104>>), iv))
    IN {good, SubSeq(good, 1, 30), [i \in 1..32 |-> 48], <<122, 122>>, <<>>}

\* values of one, two and three fields
StoredValues ==
    IVFields
    \cup {f \o <<Colon>> \o c : f \in IVFields, c \in CiphertextFields}
    \cup {f \o <<Colon>> \o c \o <<Colon, 48, 49>> : f \in IVFields, c \in CiphertextFields}

\* the envelope: snippets stored under every IV ("h", "[Decryption Error]", a
\* surrogate with no partner, a pair of surrogates), read back, and decrypt
\* applied to values of every shape
EnvelopeLanguages == {"js"}
EnvelopeTexts == {<<104>>, DecryptionError, <<55296>>, <<55357, 56832>>}
EnvelopeIds == {1, 4}

NextEnvelope ==
    \/ PostSnippets(EnvelopeLanguages, EnvelopeTexts, randomBytes)
    \/ GetSnippets(EnvelopeLanguages)
    \/ GetSnippetById(EnvelopeIds)
    \/ Decode(StoredValues)
    \/ Receive

SpecEnvelope == InitWith(SeedFiles, {FALSE}, randomBytes) /\ [][NextEnvelope]_vars

FaultEmails == {"a@x", NonString}
FaultPasswords == {"p1", NonString}
FaultLanguages == {"js", NonString}
FaultCodes == {<<104>>, NonStringCode}
FaultPrivacies == {"undefined"}

\* request bodies whose fields are present but no strings
NextFaults ==
    \/ InTurn(PostUserStart(FaultEmails, FaultPasswords))
    \/ PostUserFinish
    \/ InTurn(LoginStart(FaultEmails, FaultPasswords))
    \/ LoginFinish
    \/ GetSnippets(FaultLanguages)
    \/ PostUserSnippets(FaultLanguages, FaultCodes, FaultPrivacies, OneIV)
    \/ PostSnippets(FaultLanguages, FaultCodes, OneIV)
    \/ Receive

SpecFaults == InitWith(SeedFiles, {FALSE}, OneIV) /\ [][NextFaults]_vars

\* users and tokens over two runs of the process
NextRestart ==
    \/ InTurn(PostUserStart(TwoEmails, OnePassword))
    \/ PostUserFinish
    \/ InTurn(LoginStart(TwoEmails, OnePassword))
    \/ LoginFinish
    \/ GetUserProfile
    \/ Receive
    \/ Restart

SpecRestart == InitWith(NoSeeds, BOOLEAN, OneIV) /\ [][NextRestart]_vars

----------------------------------------------------------------------------
(* Properties *)

ReadOps ==
    {"GET /snippets", "GET /snippets/:id", "GET /user/snippets", "GET /user/snippets/:id"}

CreateOps == {"POST /snippets", "POST /user/snippets"}

PublicReadOps == {"GET /snippets", "GET /snippets/:id"}

ProtectedOps ==
    {"GET /user/snippets", "GET /user/snippets/:id", "POST /user/snippets",
     "GET /user/profile"}

Stored == {snippets[i] : i \in 1..Len(snippets)}

\* the request that response r answers carried a valid token of user uid
CarriedValidTokenOf(r, uid) ==
    /\ r.auth.kind = "bearer"
    /\ jwtVerify(r.auth.token, JWT_SECRET, clock) = "ok"
    /\ r.auth.token.id = uid

\* email is the email of record u, letter case apart
Matches(u, email) == toLowerCase(u.email) = toLowerCase(email)

\* C1: the response of a read operation holds the plaintext of a stored snippet
\* with an owner only if the request carried a valid token of that owner.
C1_PrivateBodyOnlyToOwner ==
    last.op \in ReadOps =>
        \A i \in 1..Len(last.body) : \A s \in Stored :
            (s.id = last.body[i].id /\ s.userId # Null) =>
                CarriedValidTokenOf(last, s.userId)

\* a user other than the seeded owner reads a private snippet of theirs
C1_Witness ==
    /\ last.op = "GET /user/snippets/:id"
    /\ last.status = 200
    /\ last.body[1].userId = 2
    /\ last.body[1].code = <<104>>

\* the store without the snippet of an id
Without(store, id) == SelectSeq(store, LAMBDA s : s.id # id)

\* C2: an anonymous GET /snippets/:id of a private snippet gets no 200, and gets
\* the response it would get if the id did not exist.
C2_PrivateIdNotRevealed ==
    (last.op = "GET /snippets/:id" /\ \E s \in Stored : s.id = last.id /\ s.userId # Null)
        => /\ last.status # 200
           /\ last = GetSnippetByIdResponse(Without(snippets, last.id), last.id)

\* C3: no two user records have emails that are equal letter case apart.
C3_EmailsUnique ==
    \A i, j \in 1..Len(users) : i # j => ~Matches(users[i], users[j].email)

\* C4: no two snippets of the store have the same id, so no created snippet has
\* the id of another created snippet or of a record already in the store.
C4_SnippetIdsDistinct ==
    \A i, j \in 1..Len(snippets) : i # j => snippets[i].id # snippets[j].id

\* two snippets created in this run, one through each endpoint
C4_Witness ==
    /\ Created = 2
    /\ Len(snippets) = Len(seedFile.data) + 2
    /\ last.op = "POST /snippets"
    /\ last.status = 201
    /\ snippets[Len(snippets) - 1].userId # Null

\* C5: a step that adds a snippet to the store answers 201 to a request, and the
\* record's owner is null or the user of the valid token the request carried.
C5_OwnerIsNullOrCaller ==
    [][ (run' = run /\ running' /\ Len(snippets') > Len(snippets)) =>
            LET s == snippets'[Len(snippets')]
            IN /\ last'.op \in CreateOps
               /\ last'.status = 201
               /\ s.userId = Null \/ CarriedValidTokenOf(last', s.userId) ]_vars

\* user 2 has created a private snippet
C5_Witness ==
    /\ last.op = "POST /user/snippets"
    /\ last.status = 201
    /\ last.body[1].userId = 2
    /\ snippets[Len(snippets)].userId = 2

\* C6: GET /user/snippets with a valid token answers with the stored snippets
\* whose owner is the caller: all of them, and no other.
C6_OwnSnippetsExactly ==
    (last.op = "GET /user/snippets" /\ last.status = 200) =>
        /\ CarriedValidTokenOf(last, last.auth.token.id)
        /\ {last.body[i].id : i \in 1..Len(last.body)}
             = {s.id : s \in {t \in Stored : t.userId = last.auth.token.id}}
        /\ \A i \in 1..Len(last.body) :
              /\ last.body[i].userId = last.auth.token.id
              /\ \E s \in Stored : /\ s.id = last.body[i].id
                                   /\ s.userId = last.auth.token.id
                                   /\ last.body[i].code = decrypt(s.code)

\* a caller gets their snippet while the store holds a public one and one of
\* another user
C6_Witness ==
    /\ last.op = "GET /user/snippets"
    /\ last.status = 200
    /\ Len(last.body) >= 1
    /\ \E s \in Stored : s.userId = Null
    /\ \E s \in Stored : s.userId # Null /\ s.userId # last.auth.token.id

Accepted(t) == authenticateToken(Bearer(t)).status = 0

\* C8: a token issued in this run is accepted at every clock value before
\* issued-at + 24h and rejected at every clock value from issued-at + 24h on.
C8_AcceptedUntilExpiry ==
    \A e \in issued :
        (running /\ e.run = run) =>
            (Accepted(e.token) <=> clock < e.token.iat + JWT_EXPIRATION)

\* C8 as stated: accepted up to and at issued-at + 24h, rejected past it.
C8_AcceptedThroughExpiry ==
    \A e \in issued :
        (running /\ e.run = run) =>
            (Accepted(e.token) <=> clock <= e.token.iat + JWT_EXPIRATION)

\* a token of this run is refused at the very instant issued-at + 24h
C8_Witness ==
    /\ last.op = "GET /user/profile"
    /\ last.status = 403
    /\ \E e \in issued : /\ e.run = run
                         /\ last.auth = Bearer(e.token)
                         /\ clock = e.token.iat + JWT_EXPIRATION

\* the token check ends the request
Refused(auth) == authenticateToken(auth).status # 0

\* C9: every token the verifier refuses (malformed, bad signature, expired) gets
\* 403 "Invalid or expired token"; a header with no token part gets 401 "Bearer
\* token required".
C9_RejectedTokensUniform ==
    last.op \in ProtectedOps =>
        /\ (last.auth.kind = "bearer" /\ jwtVerify(last.auth.token, JWT_SECRET, clock) # "ok")
              => (last.status = 403 /\ last.message = "Invalid or expired token")
        /\ last.auth.kind = "notoken"
              => (last.status = 401 /\ last.message = "Bearer token required")

\* C9 as stated: every refused header that is present, the one with no token
\* part among them, gets the same status and message.
C9_AllRejectionsUniform ==
    (last.op \in ProtectedOps /\ last.auth # NoHeader /\ last.status \in {401, 403}) =>
        \A b \in AuthHeaders \ {NoHeader} :
            Refused(b) => /\ authenticateToken(b).status = last.status
                          /\ authenticateToken(b).message = last.message

\* an expired token of the server is refused
C9_Witness ==
    /\ last.op \in ProtectedOps
    /\ last.status = 403
    /\ jwtVerify(last.auth.token, JWT_SECRET, clock) = "TokenExpiredError: jwt expired"

\* C10: a login with the email of a registered user, in any letter case, succeeds
\* with a token of that user's id when the password is the user's, and fails with
\* 401 and no token when it is another string.
C10_LoginAfterRegister ==
    (last.op = "POST /login" /\ last.email # Absent /\ last.password \in Passwords) =>
        \A i \in 1..Len(users) :
            Matches(users[i], last.email) =>
                IF bcryptCompare(last.password, users[i].passwordHash)
                THEN last.status = 200 /\ last.token.id = users[i].id
                ELSE last.status = 401 /\ last.token = NoToken

\* the store holds a record whose email is this one in another letter case
KnownInOtherCase(email) ==
    \E i \in 1..Len(users) : users[i].email # email /\ Matches(users[i], email)

\* C11: a POST /user that carries a password and an email differing only in
\* letter case from the email of a record in the store is answered 409 "User with
\* this email already exists." at once (its handler is never suspended at the
\* hash), and the step leaves the user store and nextUserId as they were.
C11_DuplicateEmailRefused ==
    [][ /\ ( /\ last = NoResponse
             /\ last'.op = "POST /user"
             /\ pending' = pending
             /\ last'.password # Absent
             /\ KnownInOtherCase(last'.email) )
           => /\ last'.status = 409
              /\ last'.message = "User with this email already exists."
              /\ users' = users
              /\ nextUserId' = nextUserId
        /\ \A h \in BagToSet(pending') :
              (h.op = "POST /user" /\ CopiesIn(h, pending') > CopiesIn(h, pending))
                 => ~KnownInOtherCase(h.email) ]_vars

\* a registration with the email of a stored record in another letter case has
\* been refused
C11_Witness ==
    /\ last.op = "POST /user"
    /\ last.status = 409
    /\ last.password # Absent
    /\ KnownInOtherCase(last.email)

\* the colons of a text
Colons(text) == Cardinality({i \in 1..Len(text) : text[i] = Colon})

\* what stands before the first colon of a text, and what stands after it
FieldBefore(text) ==
    LET colon == CHOOSE k \in 1..(Len(text) + 1) :
                     /\ k = Len(text) + 1 \/ text[k] = Colon
                     /\ \A j \in 1..(k - 1) : text[j] # Colon
    IN SubSeq(text, 1, colon - 1)

FieldAfter(text) == SubSeq(text, Len(FieldBefore(text)) + 2, Len(text))

\* the bytes a field gives when read as hex: its leading pairs of hex digits
HexBytes(field) ==
    CHOOSE n \in 0..(Len(field) \div 2) :
        /\ \A j \in 1..(2 * n) : IsHexChar(field[j])
        /\ \/ n = Len(field) \div 2
           \/ ~(IsHexChar(field[2 * n + 1]) /\ IsHexChar(field[2 * n + 2]))

\* C12: the body a create request gets back, decrypt(encrypt(code)), is the body
\* it submitted, whatever IV encrypt drew.
C12_RoundTrip ==
    (last.op \in CreateOps /\ last.status = 201) => last.body[1].code = last.code

\* C13: decrypt of a value that has not exactly one colon, or whose first field
\* does not give exactly 16 bytes when read as hex, returns "[Decryption Error]".
C13_MalformedDecodesAsFailure ==
    (last.op = "decrypt"
       /\ (Colons(last.code) # 1 \/ HexBytes(FieldBefore(last.code)) # ivLength))
        => last.body = <<DecryptionError>>

\* decrypt has returned the failure value for a value of two fields whose first
\* is an IV cut short
C13_Witness ==
    /\ last.op = "decrypt"
    /\ Colons(last.code) = 1
    /\ HexBytes(FieldBefore(last.code)) = ivLength - 1
    /\ last.body = <<DecryptionError>>

\* C14: what a reader is given for a record whose body decrypts without a failure
\* is not the failure value, and the listing by language holds every public
\* record of the language whose body decrypts without a failure.
C14_FailureDistinguishable ==
    /\ (last.op \in PublicReadOps /\ last.status = 200) =>
          \A i \in 1..Len(last.body) : \A s \in Stored :
              (s.id = last.body[i].id /\ ~decryptThrows(s.code))
                  => last.body[i].code # DecryptionError
    /\ (last.op = "GET /snippets" /\ last.status = 200 /\ last.language # Absent) =>
          \A s \in Stored :
              ( /\ s.userId = Null
                /\ ~decryptThrows(s.code)
                /\ toLowerCase(s.language) = toLowerCase(last.language) )
                  => \E i \in 1..Len(last.body) : last.body[i].id = s.id

\* a text is an envelope: the hex of 16 bytes, a colon, the hex of a whole number
\* of cipher blocks, one at least
IsEnvelope(text) ==
    /\ Colons(text) = 1
    /\ Len(FieldBefore(text)) = 2 * ivLength
    /\ HexBytes(FieldBefore(text)) = ivLength
    /\ Len(FieldAfter(text)) > 0
    /\ Len(FieldAfter(text)) % (2 * blockSize) = 0
    /\ 2 * HexBytes(FieldAfter(text)) = Len(FieldAfter(text))

\* C15: every record of the store has an envelope for its body; the body of a
\* seeded record decrypts to the code of the seed file, and the body of a record
\* just created decrypts to the code its request submitted.
C15_BodiesAreEnvelopesOfSubmitted ==
    /\ \A s \in Stored : IsEnvelope(s.code)
    /\ \A i \in 1..Len(snippets) :
          i <= Len(seedFile.data) =>
              /\ snippets[i].code # seedFile.data[i].code
              /\ decrypt(snippets[i].code) = seedFile.data[i].code
    /\ (last.op \in CreateOps /\ last.status = 201) =>
          /\ snippets[Len(snippets)].code # last.code
          /\ decrypt(snippets[Len(snippets)].code) = last.code

Statuses == {200, 201, 400, 401, 403, 404, 409, 500}

\* C17: the process stays up, and every request is answered with a status.
C17_NoUnhandledFault ==
    /\ running
    /\ (last # NoResponse /\ last.op # "decrypt") => last.status \in Statuses

\* the records loadSeedData put in the store
Seeded == IF seedFile.ok THEN Len(seedFile.data) ELSE 0

\* C18: the ids of the snippets created since startup are consecutive, the first
\* being the id loadSeedData left in nextSnippetId.
C18_CreatedIdsConsecutive ==
    running =>
        \A k \in 1..(Len(snippets) - Seeded) :
            snippets[Seeded + k].id = SeedNextSnippetId(seedFile) + k - 1

\* C19: the ids of the user store are strictly increasing in the order of the
\* records, hence pairwise different, and the next id is above them all.
C19_UserIdsIncreasing ==
    /\ \A i, j \in 1..Len(users) : i < j => users[i].id < users[j].id
    /\ \A i \in 1..Len(users) : users[i].id < nextUserId

\* two handlers that were suspended at the hash together (both passed the test
\* of the email) have appended their records
C19_Witness ==
    /\ Len(users) = 2
    /\ Matches(users[1], users[2].email)
    /\ last.op = "POST /user"
    /\ last.status = 201
    /\ last.id = users[2].id

\* C20: when a request with a token the server issued passes the token check and
\* the store has a record of the id the token carries, that record is the one
\* whose login produced the token: a record of the run that issued the token,
\* with the token's email.
C20_TokenBindsToItsUser ==
    (last.op = "GET /user/profile" /\ last.status = 200) =>
        \E e \in issued :
            /\ e.token = last.auth.token
            /\ e.run = run
            /\ last.id = e.token.id
            /\ last.email = e.token.email
====
